---------------------------- MODULE Spec2Model ----------------------------
(***************************************************************************)
(* A model of the liturgical-calendar core: the date/Easter arithmetic of  *)
(* funcs.py, the SeasonCalculator (determine_season, week_info), the       *)
(* ReadingsManager (get_readings_for_date) and the FeastService            *)
(* (candidate collection, precedence selection, transferred lookahead).    *)
(*                                                                         *)
(* Python values are modelled as follows: a date is a record               *)
(* [year, month, day]; a str is a TLA+ string, built with \o and ToString  *)
(* where the code uses an f-string; None is the string None defined        *)
(* below; a list is a sequence; // is \div (floor, as in Python, for the   *)
(* positive divisors used here).                                           *)
(***************************************************************************)
EXTENDS Integers, Sequences, FiniteSets, TLC

VARIABLES
    \* SeasonCalculator: the date queried, the call reached, the results
    f_date, pc, season, info,
    \* ReadingsManager: its three tables, the query and its result
    sunday_readings, weekday_readings, fixed_weekday_readings,
    r_date, liturgical_info, r_pc, readings, consulted,
    \* FeastService: the feast tables, the query, the candidates it collected
    \* and its result
    easter_feasts, christmas_feasts, q_date, transferred, f_pc, possibles, result,
    \* FeastService on tables that are objects: whether get_liturgical_feast
    \* hands out copies, the tables as initialised, the calls of
    \* get_complete_feast_info the last query made, the queries so far
    lookup_copies, feasts_at_start, calls, n_queries,
    \* _determine_colour called on its own: the winning candidate, the season,
    \* the colour returned
    c_result, c_season, c_colour, c_pc,
    \* The entry points on any input: the function called, the value passed
    \* for the date, today's date, the date computed with or the error raised
    i_entry, i_input, i_today, i_pc, i_date, i_error,
    \* get_easter and get_advent_sunday called on their own: the year, the
    \* call reached, the results
    y_year, y_pc, y_easter, y_advent, y_cycle

seasonVars == <<f_date, pc, season, info>>
readingsVars == <<sunday_readings, weekday_readings, fixed_weekday_readings,
                  r_date, liturgical_info, r_pc, readings, consulted>>
objectVars == <<lookup_copies, feasts_at_start, calls, n_queries>>
feastVars == <<easter_feasts, christmas_feasts, q_date, transferred, f_pc,
               possibles, result, objectVars>>
colourVars == <<c_result, c_season, c_colour, c_pc>>
inputVars == <<i_entry, i_input, i_today, i_pc, i_date, i_error>>
yearVars == <<y_year, y_pc, y_easter, y_advent, y_cycle>>
vars == <<seasonVars, readingsVars, feastVars, colourVars, inputVars, yearVars>>

\* The span of years the calendar is walked through, one day at a time.
FirstYear == 2006
LastYear == 2040

\* Python's None, where a str is expected.
None == "<None>"

\* Python evaluates an expression once when it is assigned to a local or passed
\* to a function: With(v, F) is F of the value of v.
With(v, F(_)) == CHOOSE r \in {F(x) : x \in {v}} : TRUE

-----------------------------------------------------------------------------
(* funcs.py: dates as datetime.date, the linear day index, the day of week *)

IsLeap(y) == (y % 4 = 0) /\ ((y % 100 # 0) \/ (y % 400 = 0))

DaysInMonth(y, m) ==
    IF m = 2 THEN (IF IsLeap(y) THEN 29 ELSE 28)
    ELSE IF m \in {4, 6, 9, 11} THEN 30 ELSE 31

\* datetime's _DAYS_BEFORE_MONTH, with the leap day.
DaysBeforeMonth(y, m) ==
    <<0, 31, 59, 90, 120, 151, 181, 212, 243, 273, 304, 334>>[m]
        + (IF m > 2 /\ IsLeap(y) THEN 1 ELSE 0)

\* datetime's _days_before_year.
DaysBeforeYear(y) ==
    LET y1 == y - 1
    IN  y1 * 365 + (y1 \div 4) - (y1 \div 100) + (y1 \div 400)

MkDate(y, m, d) == [year |-> y, month |-> m, day |-> d]

\* The day index as it would be without the leap day of the current year.
date_to_days_NoLeapDay(year, month, day) ==
    DaysBeforeYear(year)
        + <<0, 31, 59, 90, 120, 151, 181, 212, 243, 273, 304, 334>>[month] + day - 1

\* date(year, month, day) - date(1, 1, 1), in days.
date_to_days(year, month, day) ==
    DaysBeforeYear(year) + DaysBeforeMonth(year, month) + day - 1

\* datetime's _ord2ymd, on the ordinal n0 + 1.
ord2ymd(n0) ==
    LET n400 == n0 \div 146097
        r400 == n0 % 146097
        n100 == r400 \div 36524
        r100 == r400 % 36524
        n4   == r100 \div 1461
        r4   == r100 % 1461
        n1   == r4 \div 365
        n    == r4 % 365
        y    == n400 * 400 + 1 + n100 * 100 + n4 * 4 + n1
        leap == (n1 = 3) /\ ((n4 # 24) \/ (n100 = 3))
        m0   == (n + 50) \div 32
        p0   == <<0, 31, 59, 90, 120, 151, 181, 212, 243, 273, 304, 334>>[m0]
                  + (IF m0 > 2 /\ leap THEN 1 ELSE 0)
        m    == IF p0 > n THEN m0 - 1 ELSE m0
        dim  == IF m = 2 THEN (IF leap THEN 29 ELSE 28)
                ELSE IF m \in {4, 6, 9, 11} THEN 30 ELSE 31
        p    == IF p0 > n THEN p0 - dim ELSE p0
    IN  IF n1 = 4 \/ n100 = 4
        THEN MkDate(y - 1, 12, 31)
        ELSE MkDate(y, m, n - p + 1)

\* date(1, 1, 1) + timedelta(days=days), as (year, month, day).
add_delta_days(days) == With(days, ord2ymd)

\* isoweekday() is 1 (Monday) .. 7 (Sunday); 0001-01-01 is a Monday.
isoweekday(year, month, day) == (date_to_days(year, month, day) % 7) + 1

\* date.weekday(): 0 (Monday) .. 6 (Sunday).
weekday(year, month, day) == date_to_days(year, month, day) % 7

\* day_of_week as it would be with isoweekday's 7 left for Sunday.
day_of_week_Iso(year, month, day) == isoweekday(year, month, day)

day_of_week(year, month, day) ==
    LET wd == isoweekday(year, month, day)
    IN  IF wd = 7 THEN 0 ELSE wd

\* Easter as it would be without the correction of the epact.
get_easter_NoCorrection(year) ==
    LET y == year
        g == y % 19
        c == y \div 100
        h == (c - (c \div 4) - ((8 * c + 13) \div 25) + 19 * g + 15) % 30
        j == (y + (y \div 4) + h + 2 - c + (c \div 4)) % 7
        p == h - j
        d == 1 + ((p + 27 + ((p + 6) \div 40)) % 31)
        m == 3 + ((p + 26) \div 30)
    IN  <<m, d>>

\* dateutil.easter.easter(year), the Western method, as (month, day).
get_easter(year) ==
    LET y == year
        g == y % 19
        c == y \div 100
        h == (c - (c \div 4) - ((8 * c + 13) \div 25) + 19 * g + 15) % 30
        i == h - (h \div 28) * (1 - (h \div 28) * (29 \div (h + 1)) * ((21 - g) \div 11))
        j == (y + (y \div 4) + i + 2 - c + (c \div 4)) % 7
        p == i - j
        d == 1 + ((p + 27 + ((p + 6) \div 40)) % 31)
        m == 3 + ((p + 26) \div 30)
    IN  <<m, d>>

get_advent_sunday(year) == -(day_of_week(year, 12, 25) + 3 * 7)

\* get_week_number as it would be with the weeks counted from the first
\* Monday.
get_week_number_FromMonday(given_date) ==
    LET sow   == weekday(given_date.year, 1, 1)
        jan1  == date_to_days(given_date.year, 1, 1)
        start == IF sow # 0 THEN jan1 + (7 - sow) ELSE jan1
        delta == date_to_days(given_date.year, given_date.month, given_date.day) - start
    IN  (delta \div 7) + 1

\* get_week_number: the week of the year, weeks opening on Sunday.
get_week_number(given_date) ==
    LET sow   == weekday(given_date.year, 1, 1)
        jan1  == date_to_days(given_date.year, 1, 1)
        start == IF sow # 6 THEN jan1 + (6 - sow) ELSE jan1
        delta == date_to_days(given_date.year, given_date.month, given_date.day) - start
    IN  (delta \div 7) + 1

\* f"{n:02d}"
Pad2(n) == IF n < 10 THEN "0" \o ToString(n) ELSE ToString(n)

\* f"{month:02d}-{day:02d}"
MonthDay(month, day) == Pad2(month) \o "-" \o Pad2(day)

\* render_week_name(season, weekno) -> (week, season).  week_info hands it a
\* third argument, sunday_easter_point, which this function does not take; the
\* model follows the results test_season_calculator.py pins, those of the
\* function applied to the first two.
render_week_name(s, weekno) ==
    IF weekno > 0
    THEN IF s \in {"Pre-Lent", "Pre-Advent"}
         THEN <<ToString(weekno) \o " before "
                  \o (IF s = "Pre-Lent" THEN "Lent" ELSE "Advent"),
                "Ordinary Time">>
         ELSE <<(IF s \in {"Ordinary Time", "Trinity"} THEN "Proper" ELSE s)
                  \o " " \o ToString(weekno), s>>
    ELSE <<s, s>>

-----------------------------------------------------------------------------
(* core/season_calculator.py                                               *)

Seasons ==
    {"Advent", "Christmas", "Epiphany", "Pre-Lent", "Ordinary Time", "Lent",
     "Holy Week", "Easter", "Pentecost", "Trinity", "Pre-Advent"}

\* days - easterday with the previous year's Easter for January and February,
\* as is done for Christmas.
EasterPoint_PreviousInJanFeb(fd) ==
    LET y == IF fd.month <= 2 THEN fd.year - 1 ELSE fd.year
        e == get_easter(y)
    IN  date_to_days(fd.year, fd.month, fd.day) - date_to_days(y, e[1], e[2])

\* days - easterday, Easter being that of the date's own calendar year.
EasterPoint(fd) ==
    LET e == get_easter(fd.year)
    IN  date_to_days(fd.year, fd.month, fd.day) - date_to_days(fd.year, e[1], e[2])

\* days - christmasday: the previous year's Christmas for January and February.
ChristmasPoint(fd) ==
    date_to_days(fd.year, fd.month, fd.day)
      - (IF fd.month <= 2 THEN date_to_days(fd.year - 1, 12, 25)
                          ELSE date_to_days(fd.year, 12, 25))

\* (advent_sunday_abs - days) // 7
WeeksUntilAdvent(fd) ==
    (date_to_days(fd.year, 12, 25) + get_advent_sunday(fd.year)
       - date_to_days(fd.year, fd.month, fd.day)) \div 7

\* determine_season with the Advent, Christmas and Epiphany rows tested before
\* the Pre-Lent row.
determine_season_ChristmasRowsFirst(fd) ==
    With(<<get_advent_sunday(fd.year), EasterPoint(fd), ChristmasPoint(fd)>>,
         LAMBDA pt :
    LET advent_sunday   == pt[1]
        easter_point    == pt[2]
        christmas_point == pt[3]
    IN  IF christmas_point >= advent_sunday /\ christmas_point <= -1 THEN "Advent"
        ELSE IF christmas_point >= 0 /\ christmas_point <= 11 THEN "Christmas"
        ELSE IF christmas_point >= 12 /\ christmas_point < 40 THEN "Epiphany"
        ELSE IF easter_point >= -62 /\ easter_point <= -47 THEN "Pre-Lent"
        ELSE IF easter_point <= -62 THEN "Ordinary Time"
        ELSE IF easter_point > -47 /\ easter_point < -7 THEN "Lent"
        ELSE IF easter_point >= -7 /\ easter_point < 0 THEN "Holy Week"
        ELSE IF easter_point >= 0 /\ easter_point < 49 THEN "Easter"
        ELSE IF easter_point >= 49 /\ easter_point < 56 THEN "Pentecost"
        ELSE IF day_of_week(fd.year, fd.month, fd.day) = 0
                  /\ 0 < WeeksUntilAdvent(fd) /\ WeeksUntilAdvent(fd) <= 4
             THEN "Pre-Advent"
             ELSE "Trinity")

\* determine_season with the Epiphany row reaching up to christmas_point 59.
determine_season_LongEpiphany(fd) ==
    With(<<get_advent_sunday(fd.year), EasterPoint(fd), ChristmasPoint(fd)>>,
         LAMBDA pt :
    LET advent_sunday   == pt[1]
        easter_point    == pt[2]
        christmas_point == pt[3]
    IN  IF easter_point >= -62 /\ easter_point <= -47 THEN "Pre-Lent"
        ELSE IF christmas_point >= advent_sunday /\ christmas_point <= -1 THEN "Advent"
        ELSE IF christmas_point >= 0 /\ christmas_point <= 11 THEN "Christmas"
        ELSE IF christmas_point >= 12 /\ christmas_point < 60 THEN "Epiphany"
        ELSE IF easter_point <= -62 THEN "Ordinary Time"
        ELSE IF easter_point > -47 /\ easter_point < -7 THEN "Lent"
        ELSE IF easter_point >= -7 /\ easter_point < 0 THEN "Holy Week"
        ELSE IF easter_point >= 0 /\ easter_point < 49 THEN "Easter"
        ELSE IF easter_point >= 49 /\ easter_point < 56 THEN "Pentecost"
        ELSE IF day_of_week(fd.year, fd.month, fd.day) = 0
                  /\ 0 < WeeksUntilAdvent(fd) /\ WeeksUntilAdvent(fd) <= 4
             THEN "Pre-Advent"
             ELSE "Trinity")

\* SeasonCalculator.determine_season(f_date)
determine_season(fd) ==
    With(<<get_advent_sunday(fd.year), EasterPoint(fd), ChristmasPoint(fd)>>,
         LAMBDA pt :
    LET advent_sunday   == pt[1]
        easter_point    == pt[2]
        christmas_point == pt[3]
    IN  IF easter_point >= -62 /\ easter_point <= -47 THEN "Pre-Lent"
        ELSE IF christmas_point >= advent_sunday /\ christmas_point <= -1 THEN "Advent"
        ELSE IF christmas_point >= 0 /\ christmas_point <= 11 THEN "Christmas"
        ELSE IF christmas_point >= 12 /\ christmas_point < 40 THEN "Epiphany"
        ELSE IF easter_point <= -62 THEN "Ordinary Time"
        ELSE IF easter_point > -47 /\ easter_point < -7 THEN "Lent"
        ELSE IF easter_point >= -7 /\ easter_point < 0 THEN "Holy Week"
        ELSE IF easter_point >= 0 /\ easter_point < 49 THEN "Easter"
        ELSE IF easter_point >= 49 /\ easter_point < 56 THEN "Pentecost"
        ELSE IF day_of_week(fd.year, fd.month, fd.day) = 0
                  /\ 0 < WeeksUntilAdvent(fd) /\ WeeksUntilAdvent(fd) <= 4
             THEN "Pre-Advent"
             ELSE "Trinity")

Max(a, b) == IF a >= b THEN a ELSE b

\* The dates whose weekday_reading_key week_info always clears.
fixed_weekday_dates ==
    {"12-29", "12-30", "12-31",
     "01-02", "01-03", "01-04", "01-05",
     "01-07", "01-08", "01-09", "01-10", "01-11", "01-12"}

\* The locals as they would be if the week were named from the queried date
\* and not from the Sunday that opens its week.
WeekLocals_OfDate(fd) ==
    With(date_to_days(fd.year, fd.month, fd.day), LAMBDA sunday_days :
    With(add_delta_days(sunday_days), LAMBDA sunday_date :
        LET year      == fd.year
            e         == get_easter(year)
            easterday == date_to_days(year, e[1], e[2])
            sunday_christmasday ==
                IF sunday_date.month <= 2
                THEN date_to_days(year - 1, 12, 25)
                ELSE date_to_days(year, 12, 25)
        IN  [year                   |-> year,
             days                   |-> date_to_days(fd.year, fd.month, fd.day),
             easterday              |-> easterday,
             advent_sunday          |-> get_advent_sunday(year),
             week_start_sunday_days |-> sunday_days,
             week_start_sunday_date |-> sunday_date,
             sunday_easter_point    |-> sunday_days - easterday,
             sunday_christmas_point |-> sunday_days - sunday_christmasday,
             sunday_season          |-> determine_season(sunday_date)]))

\* week_info, lines 89-116: the locals computed before the week is named. Every
\* offset but the Sunday's season is taken in the year of f_date.
WeekLocals(fd) ==
    With(date_to_days(fd.year, fd.month, fd.day)
           - day_of_week(fd.year, fd.month, fd.day), LAMBDA sunday_days :
    With(add_delta_days(sunday_days), LAMBDA sunday_date :
        LET year      == fd.year
            e         == get_easter(year)
            easterday == date_to_days(year, e[1], e[2])
            sunday_christmasday ==
                IF sunday_date.month <= 2
                THEN date_to_days(year - 1, 12, 25)
                ELSE date_to_days(year, 12, 25)
        IN  [year                   |-> year,
             days                   |-> date_to_days(fd.year, fd.month, fd.day),
             easterday              |-> easterday,
             advent_sunday          |-> get_advent_sunday(year),
             week_start_sunday_days |-> sunday_days,
             week_start_sunday_date |-> sunday_date,
             sunday_easter_point    |-> sunday_days - easterday,
             sunday_christmas_point |-> sunday_days - sunday_christmasday,
             sunday_season          |-> determine_season(sunday_date)]))

\* week_info, lines 118-182: the week name and the weekday reading key that the
\* season of the week-opening Sunday gives, as <<week_name, weekday_reading_key>>.
SeasonWeekOf(L) ==
    CASE L.sunday_season = "Pre-Lent" ->
           LET weekno == ((-49 - L.sunday_easter_point) \div 7) + 1
               wn     == render_week_name("Pre-Lent", weekno)[1]
           IN  <<wn, wn>>
      [] L.sunday_season = "Advent" ->
           LET weekno == 1 + ((L.sunday_christmas_point - L.advent_sunday) \div 7)
               wn     == render_week_name("Advent", weekno)[1]
           IN  <<wn, wn>>
      [] L.sunday_season = "Christmas" ->
           LET weekno == IF L.sunday_christmas_point = 0 THEN 1
                         ELSE 1 + (L.sunday_christmas_point \div 7)
           IN  <<render_week_name("Christmas", weekno)[1], None>>
      [] L.sunday_season = "Epiphany" ->
           LET weekno == Max(1, 1 + ((L.sunday_christmas_point - 12) \div 7))
           IN  <<render_week_name("Epiphany", weekno)[1],
                 "Epiphany " \o ToString(weekno)>>
      [] L.sunday_season = "Lent" ->
           LET weekno == Max(1, ((L.sunday_easter_point - (-42)) \div 7) + 1)
               wn     == render_week_name("Lent", weekno)[1]
           IN  <<wn, wn>>
      [] L.sunday_season = "Holy Week" -> <<"Holy Week", "Holy Week">>
      [] L.sunday_season = "Easter" ->
           LET weekno == 1 + (L.sunday_easter_point \div 7)
               wn     == render_week_name("Easter", weekno)[1]
           IN  <<wn, wn>>
      [] L.sunday_season = "Pentecost" -> <<"Pentecost", "Pentecost">>
      [] L.sunday_season = "Trinity" ->
           LET weekno == get_week_number(L.week_start_sunday_date) - 18
               trinity_week == ((L.sunday_easter_point - 56) \div 7) + 1
           IN  <<IF 56 <= L.sunday_easter_point /\ L.sunday_easter_point < 63
                 THEN "Trinity" ELSE "Proper " \o ToString(weekno),
                 "Trinity " \o ToString(trinity_week)>>
      [] L.sunday_season = "Pre-Advent" ->
           LET weeks_until_advent ==
                   (date_to_days(L.year, 12, 25) + L.advent_sunday - L.days) \div 7
               wn == IF weeks_until_advent = 0 THEN "Advent 1"
                     ELSE ToString(weeks_until_advent) \o " before Advent"
           IN  <<wn, wn>>
      [] L.sunday_season = "Ordinary Time" ->
           LET weekno == Max(1, 1 + ((L.sunday_christmas_point - 12) \div 7))
           IN  <<render_week_name("Epiphany", weekno)[1],
                 "Epiphany " \o ToString(weekno)>>
      [] OTHER -> <<L.sunday_season, L.sunday_season>>

SeasonWeek(fd) == With(WeekLocals(fd), SeasonWeekOf)

\* The Pre-Lent override reaching back six weeks instead of five.
PreLentOverride_SixWeeks(fd) ==
    With(WeekLocals(fd), LAMBDA L :
    LET ash_wednesday_days == L.easterday - 46
        pre_lent_start_sunday_days == ash_wednesday_days - 7 * 6
        n == ((ash_wednesday_days - L.week_start_sunday_days) \div 7) + 1
    IN  IF pre_lent_start_sunday_days <= L.week_start_sunday_days
             /\ L.week_start_sunday_days < ash_wednesday_days
        THEN (IF 1 <= n /\ n <= 6 THEN ToString(n) \o " before Lent" ELSE None)
        ELSE None)

\* The Pre-Lent override numbering the weeks without the "+ 1".
PreLentOverride_NoPlusOne(fd) ==
    With(WeekLocals(fd), LAMBDA L :
    LET ash_wednesday_days == L.easterday - 46
        pre_lent_start_sunday_days == ash_wednesday_days - 7 * 5
        n == (ash_wednesday_days - L.week_start_sunday_days) \div 7
    IN  IF pre_lent_start_sunday_days <= L.week_start_sunday_days
             /\ L.week_start_sunday_days < ash_wednesday_days
        THEN (IF 1 <= n /\ n <= 5 THEN ToString(n) \o " before Lent" ELSE None)
        ELSE None)

\* week_info, lines 183-209: the Pre-Lent override of the weekday reading key,
\* None when it does not apply.
PreLentOverride(fd) ==
    With(WeekLocals(fd), LAMBDA L :
    LET ash_wednesday_days == L.easterday - 46
        pre_lent_start_sunday_days == ash_wednesday_days - 7 * 5
        n == ((ash_wednesday_days - L.week_start_sunday_days) \div 7) + 1
    IN  IF pre_lent_start_sunday_days <= L.week_start_sunday_days
             /\ L.week_start_sunday_days < ash_wednesday_days
        THEN (IF 1 <= n /\ n <= 5 THEN ToString(n) \o " before Lent" ELSE None)
        ELSE None)

\* SeasonCalculator.week_info(f_date)
week_info(fd) ==
    With(<<SeasonWeek(fd), PreLentOverride(fd)>>, LAMBDA r :
    LET week_name == r[1][1]
        override_weekday_reading_key == r[2]
        key == IF override_weekday_reading_key # None
               THEN override_weekday_reading_key ELSE r[1][2]
    IN  [season              |-> determine_season(fd),
         week_name           |-> week_name,
         week_start_sunday   |->
             add_delta_days(date_to_days(fd.year, fd.month, fd.day)
                              - day_of_week(fd.year, fd.month, fd.day)),
         weekday_reading_key |->
             IF MonthDay(fd.month, fd.day) \in fixed_weekday_dates
             THEN None ELSE key])

-----------------------------------------------------------------------------
(* The calendar walked one day at a time, each date queried in turn.       *)

NextDate(fd) ==
    IF fd.day < DaysInMonth(fd.year, fd.month) THEN MkDate(fd.year, fd.month, fd.day + 1)
    ELSE IF fd.month < 12 THEN MkDate(fd.year, fd.month + 1, 1)
    ELSE MkDate(fd.year + 1, 1, 1)

NoInfo == [season |-> None, week_name |-> None,
           week_start_sunday |-> MkDate(0, 0, 0), weekday_reading_key |-> None]

SeasonInit ==
    /\ f_date \in {MkDate(y, m, 1) : y \in FirstYear..LastYear, m \in 1..12}
    /\ pc = "date"
    /\ season = None
    /\ info = NoInfo

\* The SeasonCalculator not in use.
SeasonIdle ==
    /\ f_date = MkDate(FirstYear, 1, 1)
    /\ pc = "idle"
    /\ season = None
    /\ info = NoInfo

DetermineSeason ==
    /\ pc = "date"
    /\ season' = determine_season(f_date)
    /\ pc' = "season"
    /\ UNCHANGED <<f_date, info, readingsVars, feastVars, colourVars, inputVars, yearVars>>

WeekInfo ==
    /\ pc = "season"
    /\ info' = week_info(f_date)
    /\ pc' = "week"
    /\ UNCHANGED <<f_date, season, readingsVars, feastVars, colourVars, inputVars, yearVars>>

NextDay ==
    /\ pc = "week"
    /\ NextDate(f_date).year <= LastYear
    /\ f_date' = NextDate(f_date)
    /\ pc' = "date"
    /\ season' = None
    /\ info' = NoInfo
    /\ UNCHANGED <<readingsVars, feastVars, colourVars, inputVars, yearVars>>

Next == DetermineSeason \/ WeekInfo \/ NextDay

-----------------------------------------------------------------------------
(* core/readings_manager.py: the three reading tables and their selection.  *)
(* The tables are data of the package held by the manager; a dict is a      *)
(* function, dict.get(k, default) is Get, a list is a sequence.             *)

Get(d, k, default) == IF k \in DOMAIN d THEN d[k] ELSE default

\* Python truth of an optional string: neither None nor ''.
Truthy(x) == x # None /\ x # ""

\* date.strftime('%A') of date.weekday()
DayName(wd) ==
    <<"Monday", "Tuesday", "Wednesday", "Thursday",
      "Friday", "Saturday", "Sunday">>[wd + 1]

\* get_yearly_cycle as it would be with the cycles counted from the year
\* itself.
get_yearly_cycle_FromYear(year) ==
    << <<"A", "B", "C">>[(year % 3) + 1],
       IF year % 2 = 0 THEN 1 ELSE 2 >>

\* get_yearly_cycle(year) -> (sunday_cycle, weekday_cycle)
get_yearly_cycle(year) ==
    << <<"A", "B", "C">>[((year - 1) % 3) + 1],
       IF year % 2 = 0 THEN 1 ELSE 2 >>

get_sunday_readings(table, week, cycle) ==
    Get(Get(table, week, <<>>), cycle, <<>>)

get_weekday_readings(table, weekday_reading, day, cycle) ==
    Get(Get(Get(table, weekday_reading, <<>>), day, <<>>), ToString(cycle), <<>>)

\* date_str[5:] is the MM-DD part of the date.
get_fixed_weekday_readings(table, fd, cycle) ==
    Get(Get(table, MonthDay(fd.month, fd.day), <<>>), ToString(cycle), <<>>)

\* The weekday branch with the order of the two lookups exchanged.
get_readings_for_date_FixedFirst(sun, wkd, fix, fd, li) ==
    LET cyc == get_yearly_cycle(fd.year)
        wd  == weekday(fd.year, fd.month, fd.day)
    IN  IF wd = 6
        THEN IF Truthy(li.week)
             THEN <<get_sunday_readings(sun, li.week, cyc[1]), {"sunday"}>>
             ELSE << <<>>, {} >>
        ELSE LET key   == IF li.weekday_reading = None THEN li.week
                          ELSE li.weekday_reading
                 fixed == get_fixed_weekday_readings(fix, fd, cyc[2])
                 week  == IF Truthy(key)
                          THEN get_weekday_readings(wkd, key, DayName(wd), cyc[2])
                          ELSE <<>>
             IN  IF fixed # <<>> THEN <<fixed, {"fixed"}>>
                 ELSE <<week, {"fixed"} \cup IF Truthy(key) THEN {"weekday"} ELSE {}>>

\* The weekday branch without the fixed-weekday fallback.
get_readings_for_date_NoFixed(sun, wkd, fix, fd, li) ==
    LET cyc == get_yearly_cycle(fd.year)
        wd  == weekday(fd.year, fd.month, fd.day)
    IN  IF wd = 6
        THEN IF Truthy(li.week)
             THEN <<get_sunday_readings(sun, li.week, cyc[1]), {"sunday"}>>
             ELSE << <<>>, {} >>
        ELSE LET key  == IF li.weekday_reading = None THEN li.week
                         ELSE li.weekday_reading
                 week == IF Truthy(key)
                         THEN get_weekday_readings(wkd, key, DayName(wd), cyc[2])
                         ELSE <<>>
             IN  <<week, IF Truthy(key) THEN {"weekday"} ELSE {}>>

\* get_readings_for_date(date_str, liturgical_info) on the tables sun, wkd and
\* fix -> (the readings returned, the tables it looked into).  li.week and
\* li.weekday_reading are liturgical_info.get(...): None when the key is
\* missing or holds None.
get_readings_for_date(sun, wkd, fix, fd, li) ==
    LET cyc == get_yearly_cycle(fd.year)
        wd  == weekday(fd.year, fd.month, fd.day)
    IN  IF wd = 6
        THEN IF Truthy(li.week)
             THEN <<get_sunday_readings(sun, li.week, cyc[1]), {"sunday"}>>
             ELSE << <<>>, {} >>
        ELSE LET key   == IF li.weekday_reading = None THEN li.week
                          ELSE li.weekday_reading
                 week  == IF Truthy(key)
                          THEN get_weekday_readings(wkd, key, DayName(wd), cyc[2])
                          ELSE <<>>
                 fixed == get_fixed_weekday_readings(fix, fd, cyc[2])
                 seen  == IF Truthy(key) THEN {"weekday"} ELSE {}
             IN  IF week # <<>> THEN <<week, seen>>
                 ELSE <<fixed, seen \cup {"fixed"}>>

\* The inputs of the queries: Sundays and weekdays of the three Sunday cycles
\* and both weekday cycles, week keys, tables with and without their entries.
ReadingsDates ==
    {MkDate(2024, 12, 29), MkDate(2025, 1, 5), MkDate(2024, 12, 30),
     MkDate(2024, 1, 8), MkDate(2025, 1, 8), MkDate(2023, 1, 2)}

WeekKeys == {"Christmas 1", "Epiphany 1"}

LiturgicalInfos ==
    [week : WeekKeys \cup {None, ""}, weekday_reading : WeekKeys \cup {None, ""}]

\* A table over the keys of D whose lists are filled for the keys of E only.
SundayTable(D, E) ==
    [k \in D |-> [c \in {"A", "B"} |->
        IF k \in E THEN <<"Sunday " \o k \o " " \o c>> ELSE <<>>]]

WeekdayTable(D, E) ==
    [k \in D |-> [dn \in {"Monday", "Tuesday"} |-> [c \in {"1", "2"} |->
        IF k \in E THEN <<"Weekday " \o k \o " " \o dn \o " " \o c>> ELSE <<>>]]]

FixedTable(D, E) ==
    [md \in D |-> [c \in {"1"} |->
        IF md \in E THEN <<"Fixed " \o md \o " " \o c>> ELSE <<>>]]

FixedKeys == {"12-30", "01-08"}

ReadingsInit ==
    /\ \E D \in SUBSET WeekKeys : \E E \in SUBSET D :
           sunday_readings = SundayTable(D, E)
    /\ \E D \in SUBSET WeekKeys : \E E \in SUBSET D :
           weekday_readings = WeekdayTable(D, E)
    /\ \E D \in SUBSET FixedKeys : \E E \in SUBSET D :
           fixed_weekday_readings = FixedTable(D, E)
    /\ r_date \in ReadingsDates
    /\ liturgical_info \in LiturgicalInfos
    /\ r_pc = "call"
    /\ readings = <<>>
    /\ consulted = {}

\* The ReadingsManager not in use.
ReadingsIdle ==
    /\ sunday_readings = <<>>
    /\ weekday_readings = <<>>
    /\ fixed_weekday_readings = <<>>
    /\ r_date = MkDate(FirstYear, 1, 1)
    /\ liturgical_info = [week |-> None, weekday_reading |-> None]
    /\ r_pc = "idle"
    /\ readings = <<>>
    /\ consulted = {}

GetReadingsForDate ==
    /\ r_pc = "call"
    /\ LET r == get_readings_for_date(sunday_readings, weekday_readings,
                                      fixed_weekday_readings, r_date, liturgical_info)
       IN  readings' = r[1] /\ consulted' = r[2]
    /\ r_pc' = "return"
    /\ UNCHANGED <<sunday_readings, weekday_readings, fixed_weekday_readings,
                   r_date, liturgical_info, seasonVars, feastVars, colourVars, inputVars, yearVars>>

\* The caller asks again, for another date of the same week information.
NextQuery ==
    /\ r_pc = "return"
    /\ r_date' \in ReadingsDates \ {r_date}
    /\ r_pc' = "call"
    /\ readings' = <<>>
    /\ consulted' = {}
    /\ UNCHANGED <<sunday_readings, weekday_readings, fixed_weekday_readings,
                   liturgical_info, seasonVars, feastVars, colourVars, inputVars, yearVars>>

ReadingsNext == GetReadingsForDate \/ NextQuery

-----------------------------------------------------------------------------
(* services/feast_service.py: the candidates of a date, their precedence,  *)
(* the colour and the assembled result.  A feast is a Python dict: a       *)
(* function on the keys it holds, so a key it lacks is outside its DOMAIN. *)
(* easter_feasts and christmas_feasts are what get_liturgical_feast        *)
(* answers for the keys 'easter' and 'christmas'.                          *)

\* None where a dict is expected.
NoneDict == [none |-> TRUE]

\* x.get('prec', 0)
PrecKey(x) == Get(x, "prec", 0)

\* The stable sort as it would be without stability among equal keys: the
\* latest-collected of the highest candidates comes first.
RECURSIVE sorted_by_prec_LatestFirst(_)
sorted_by_prec_LatestFirst(s) ==
    IF Len(s) = 0 THEN <<>>
    ELSE LET i == CHOOSE i \in 1..Len(s) : \A j \in 1..Len(s) :
                      \/ PrecKey(s[j]) < PrecKey(s[i])
                      \/ PrecKey(s[j]) = PrecKey(s[i]) /\ j <= i
         IN  <<s[i]>> \o sorted_by_prec_LatestFirst(
                             SubSeq(s, 1, i - 1) \o SubSeq(s, i + 1, Len(s)))

\* sorted(possibles, key=lambda x: x.get('prec', 0), reverse=True): the sort
\* is stable, so candidates of equal precedence keep the order of collection.
RECURSIVE sorted_by_prec(_)
sorted_by_prec(s) ==
    IF Len(s) = 0 THEN <<>>
    ELSE LET i == CHOOSE i \in 1..Len(s) : \A j \in 1..Len(s) :
                      \/ PrecKey(s[j]) < PrecKey(s[i])
                      \/ PrecKey(s[j]) = PrecKey(s[i]) /\ i <= j
         IN  <<s[i]>> \o sorted_by_prec(
                             SubSeq(s, 1, i - 1) \o SubSeq(s, i + 1, Len(s)))

\* The selection on a sort that is not stable.
apply_precedence_rules_Unstable(cands, transf) ==
    With(sorted_by_prec_LatestFirst(cands), LAMBDA s :
        IF transf
        THEN IF Len(s) = 0 THEN NoneDict
             ELSE IF DOMAIN s[1] # {} /\ "prec" \in DOMAIN s[1] /\ s[1].prec = 5
                  THEN NoneDict
                  ELSE IF Len(s) > 1 THEN s[2] ELSE NoneDict
        ELSE IF Len(s) = 0 THEN [name |-> "", prec |-> 1]
             ELSE s[1])

\* _apply_precedence_rules(possibles, transferred); possibles[0] of an empty
\* list raises the IndexError that both branches catch.
apply_precedence_rules(cands, transf) ==
    With(sorted_by_prec(cands), LAMBDA s :
        IF transf
        THEN IF Len(s) = 0 THEN NoneDict
             ELSE IF DOMAIN s[1] # {} /\ "prec" \in DOMAIN s[1] /\ s[1].prec = 5
                  THEN NoneDict
                  ELSE IF Len(s) > 1 THEN s[2] ELSE NoneDict
        ELSE IF Len(s) = 0 THEN [name |-> "", prec |-> 1]
             ELSE s[1])

\* _get_season_url(season)
get_season_url(s) ==
    CASE s = "Advent"    -> "https://en.wikipedia.org/wiki/Advent"
      [] s = "Christmas" -> "https://en.wikipedia.org/wiki/Christmastide"
      [] s = "Epiphany"  -> "https://en.wikipedia.org/wiki/Epiphany_season"
      [] s = "Pre-Lent"  -> "https://en.wikipedia.org/wiki/Septuagesima"
      [] s = "Lent"      -> "https://en.wikipedia.org/wiki/Lent"
      [] s = "Holy Week" -> "https://en.wikipedia.org/wiki/Holy_Week"
      [] s = "Easter"    -> "https://en.wikipedia.org/wiki/Eastertide"
      [] OTHER           -> "https://en.wikipedia.org/wiki/Ordinary_Time"

\* The colour rules with the explicit colour looked at before the rose names.
determine_colour_ExplicitFirst(res, s) ==
    IF Get(res, "colour", None) # None THEN res.colour
    ELSE IF Get(res, "name", None) \in {"Advent 3", "Lent 4"} THEN "rose"
    ELSE IF PrecKey(res) > 4 /\ PrecKey(res) # 5
         THEN IF Get(res, "martyr", FALSE) THEN "red" ELSE "white"
    ELSE CASE s \in {"Advent", "Lent"} -> "purple"
           [] s \in {"Christmas", "Epiphany", "Easter"} -> "white"
           [] s = "Holy Week" -> "red"
           [] OTHER -> "green"

\* _determine_colour(result, season, christmas_point, advent_sunday)
determine_colour(res, s) ==
    IF Get(res, "name", None) \in {"Advent 3", "Lent 4"} THEN "rose"
    ELSE IF Get(res, "colour", None) # None THEN res.colour
    ELSE IF PrecKey(res) > 4 /\ PrecKey(res) # 5
         THEN IF Get(res, "martyr", FALSE) THEN "red" ELSE "white"
    ELSE CASE s \in {"Advent", "Lent"} -> "purple"
           [] s \in {"Christmas", "Epiphany", "Easter"} -> "white"
           [] s = "Holy Week" -> "red"
           [] OTHER -> "green"

\* _get_colour_code(colour)
get_colour_code(colour) ==
    CASE colour = "white"  -> "#FFFFFF"
      [] colour = "red"    -> "#FF0000"
      [] colour = "green"  -> "#00FF00"
      [] colour = "purple" -> "#800080"
      [] colour = "rose"   -> "#FFB6C1"
      [] OTHER             -> "#000000"

\* _add_readings as it would be if it added nothing.
add_readings_Nothing(res, fd) == res

\* _add_readings as it would be if the readings of the day always replaced
\* those the candidate carries.
add_readings_Overwrite(res, fd) ==
    [readings |->
        get_readings_for_date(sunday_readings, weekday_readings,
            fixed_weekday_readings, fd,
            [week |-> Get(res, "week", None),
             weekday_reading |-> Get(res, "weekday_reading", None)])[1]]
    @@ res

\* _add_readings(result, date_str).  When the feast brings its readings the
\* selection of the date is a list, never a dict, so nothing is merged.
add_readings(res, fd) ==
    IF "readings" \notin DOMAIN res
    THEN [readings |->
             get_readings_for_date(sunday_readings, weekday_readings,
                 fixed_weekday_readings, fd,
                 [week |-> Get(res, "week", None),
                  weekday_reading |-> Get(res, "weekday_reading", None)])[1]]
         @@ res
    ELSE res

\* .strip() leaves something: of the names of the tables only '' and ' ' are
\* blank.
NonBlank(name) == name \notin {"", " "}

RECURSIVE get_complete_feast_info(_, _)

\* _get_transferred_feast(date_str): yesterday's result of the lookahead
\* call, renamed, unless it is a Sunday or has a blank name.
get_transferred_feast(fd) ==
    With(get_complete_feast_info(
             add_delta_days(date_to_days(fd.year, fd.month, fd.day) - 1), TRUE),
         LAMBDA yesterday_feast :
            IF /\ PrecKey(yesterday_feast) # 5
               /\ NonBlank(Get(yesterday_feast, "name", ""))
            THEN [name |-> yesterday_feast.name \o " (transferred)"] @@ yesterday_feast
            ELSE NoneDict)

\* dayofweek = date_obj.weekday(): 0 for Monday, 6 for Sunday.
dayofweek(fd) == weekday(fd.year, fd.month, fd.day)

\* The test of _get_week_name that opens its branch for a Sunday:
\* if dayofweek == 0.
week_name_sunday_branch(fd) == dayofweek(fd) = 0

\* The test of _collect_possible_feasts that opens the addition of the Sunday
\* candidate: if dayofweek == 6.
sunday_candidate_branch(fd) == dayofweek(fd) = 6

\* _collect_possible_feasts(easter_point, month, day, transferred, date_str)
collect_possible_feasts(fd, transf) ==
    LET feast_from_easter    == Get(easter_feasts, EasterPoint(fd), NoneDict)
        feast_from_christmas == Get(christmas_feasts, MonthDay(fd.month, fd.day), NoneDict)
        transferred_feast    == IF ~transf THEN get_transferred_feast(fd) ELSE NoneDict
        Opt(f)               == IF f # NoneDict /\ DOMAIN f # {} THEN <<f>> ELSE <<>>
    IN  With(Opt(feast_from_easter) \o Opt(feast_from_christmas) \o Opt(transferred_feast),
             LAMBDA found :
                IF /\ sunday_candidate_branch(fd)
                   /\ \A i \in 1..Len(found) :
                          ~("prec" \in DOMAIN found[i] /\ found[i].prec = 9)
                THEN Append(found, [prec |-> 5, type |-> "Sunday",
                                    name |-> determine_season(fd)])
                ELSE found)

\* get_complete_feast_info(date_str, transferred).  The season is the
\* SeasonCalculator's; week and weekday_reading, which the service asks of
\* calculate_week_number, calculate_weekday_reading and
\* calculate_sunday_week_info, are those of week_info, where the
\* SeasonCalculator keeps that logic; the week number itself is not kept.
get_complete_feast_info(fd, transf) ==
    With(<<determine_season(fd), week_info(fd),
           apply_precedence_rules(collect_possible_feasts(fd, transf), transf)>>,
         LAMBDA c :
            With([season |-> c[1], season_url |-> get_season_url(c[1]),
                  week |-> c[2].week_name, date |-> fd,
                  weekday_reading |-> c[2].weekday_reading_key]
                 @@ (IF c[3] = NoneDict THEN [name |-> "", prec |-> 1] ELSE c[3]),
                 LAMBDA res :
                    With(determine_colour(res, c[1]), LAMBDA colour :
                        add_readings([colour |-> colour,
                                      colourcode |-> get_colour_code(colour)] @@ res,
                                     fd))))

\* The same query on the feast tables as objects.  The service changes the
\* dict it selected in place (result.update, result['colour'] = ...,
\* yesterday_feast['name'] = ...), so what a query does to the tables depends
\* on what get_liturgical_feast hands out: the table's own entry or a copy of
\* it.  H is the pair of tables, [easter |-> ..., christmas |-> ...]; a dict
\* that is a table's own entry carries, under "ref", the place it lives at.
get_liturgical_feast(H, relative_to, pointer, copies) ==
    IF pointer \notin DOMAIN H[relative_to] THEN NoneDict
    ELSE IF copies THEN H[relative_to][pointer]
    ELSE [ref |-> [relative_to |-> relative_to, pointer |-> pointer]]
         @@ H[relative_to][pointer]

\* A dict as the caller sees it.
Untag(d) == [k \in DOMAIN d \ {"ref"} |-> d[k]]

\* An assignment to a key of dict d: when d is a table's entry, the table
\* holds the new value.
Store(H, d) ==
    IF "ref" \in DOMAIN d
    THEN [H EXCEPT ![d.ref.relative_to][d.ref.pointer] = Untag(d)]
    ELSE H

RECURSIVE get_complete_feast_info_in_place(_, _, _, _)

\* The lookahead as it would be if it looked two days back.
get_transferred_feast_in_place_TwoDays(H, fd, copies) ==
    With(get_complete_feast_info_in_place(H,
             add_delta_days(date_to_days(fd.year, fd.month, fd.day) - 2),
             TRUE, copies),
         LAMBDA y :
            IF /\ PrecKey(y.result) # 5
               /\ NonBlank(Get(y.result, "name", ""))
            THEN With([name |-> y.result.name \o " (transferred)"] @@ y.result,
                      LAMBDA yesterday_feast :
                         [heap |-> Store(y.heap, yesterday_feast),
                          feast |-> yesterday_feast, calls |-> y.calls])
            ELSE [heap |-> y.heap, feast |-> NoneDict, calls |-> y.calls])

\* _get_transferred_feast(date_str), called when transferred is false.
get_transferred_feast_in_place(H, fd, copies) ==
    With(get_complete_feast_info_in_place(H,
             add_delta_days(date_to_days(fd.year, fd.month, fd.day) - 1),
             TRUE, copies),
         LAMBDA y :
            IF /\ PrecKey(y.result) # 5
               /\ NonBlank(Get(y.result, "name", ""))
            THEN With([name |-> y.result.name \o " (transferred)"] @@ y.result,
                      LAMBDA yesterday_feast :
                         [heap |-> Store(y.heap, yesterday_feast),
                          feast |-> yesterday_feast, calls |-> y.calls])
            ELSE [heap |-> y.heap, feast |-> NoneDict, calls |-> y.calls])

\* _collect_possible_feasts: the two lookups come before the lookahead.
collect_possible_feasts_in_place(H, fd, transf, copies) ==
    With(<<get_liturgical_feast(H, "easter", EasterPoint(fd), copies),
           get_liturgical_feast(H, "christmas", MonthDay(fd.month, fd.day), copies),
           IF ~transf THEN get_transferred_feast_in_place(H, fd, copies)
           ELSE [heap |-> H, feast |-> NoneDict, calls |-> <<>>]>>,
         LAMBDA c :
            LET Opt(f) == IF f # NoneDict /\ DOMAIN f # {} THEN <<f>> ELSE <<>>
                found  == Opt(c[1]) \o Opt(c[2]) \o Opt(c[3].feast)
            IN  [heap |-> c[3].heap, calls |-> c[3].calls,
                 possibles |->
                    IF /\ sunday_candidate_branch(fd)
                       /\ \A i \in 1..Len(found) :
                              ~("prec" \in DOMAIN found[i] /\ found[i].prec = 9)
                    THEN Append(found, [prec |-> 5, type |-> "Sunday",
                                        name |-> determine_season(fd)])
                    ELSE found])

\* get_complete_feast_info(date_str, transferred): the tables it leaves, the
\* dict it returns, the calls of get_complete_feast_info made (this one
\* first) and the candidates collected.
get_complete_feast_info_in_place(H, fd, transf, copies) ==
    With(collect_possible_feasts_in_place(H, fd, transf, copies),
         LAMBDA c :
            With(<<determine_season(fd), week_info(fd),
                   apply_precedence_rules(c.possibles, transf)>>,
                 LAMBDA s :
                    With([season |-> s[1], season_url |-> get_season_url(s[1]),
                          week |-> s[2].week_name, date |-> fd,
                          weekday_reading |-> s[2].weekday_reading_key]
                         @@ (IF s[3] = NoneDict THEN [name |-> "", prec |-> 1] ELSE s[3]),
                         LAMBDA res :
                            With(determine_colour(res, s[1]), LAMBDA colour :
                                With(add_readings([colour |-> colour,
                                         colourcode |-> get_colour_code(colour)] @@ res,
                                         fd),
                                     LAMBDA final :
                                        [heap |-> Store(c.heap, final),
                                         result |-> final,
                                         calls |-> <<[date |-> fd, transferred |-> transf]>>
                                                   \o c.calls,
                                         possibles |-> c.possibles])))))

\* The dates queried: the days around the third Sunday of Advent 2024.
FeastDates ==
    {MkDate(2024, 12, 14), MkDate(2024, 12, 15), MkDate(2024, 12, 16),
     MkDate(2024, 12, 17)}

\* What the feast tables may hold for a key: nothing, or a feast of one of
\* these precedences.
FixedPrecs == {3, 5, 7, 9}
MovablePrecs == {7, 9}

FixedFeast(md, p) == [name |-> "Fixed " \o md, prec |-> p]
MovableFeast(ep, p) == [name |-> "Movable " \o ToString(ep), prec |-> p]

\* The movable feasts of the model fall on the Saturday or the Sunday.
MovableDates == {MkDate(2024, 12, 14), MkDate(2024, 12, 15)}

\* The tables not followed as objects: every query starts from the tables as
\* initialised.
ObjectsIdle ==
    /\ lookup_copies = TRUE
    /\ feasts_at_start = <<>>
    /\ calls = <<>>
    /\ n_queries = 0

FeastInit ==
    /\ \E D \in SUBSET {MonthDay(d.month, d.day) : d \in FeastDates} :
           \E p \in [D -> FixedPrecs] :
               christmas_feasts = [md \in D |-> FixedFeast(md, p[md])]
    /\ \E D \in SUBSET {EasterPoint(d) : d \in MovableDates} :
           \E p \in [D -> MovablePrecs] :
               easter_feasts = [ep \in D |-> MovableFeast(ep, p[ep])]
    /\ q_date \in FeastDates
    /\ transferred \in BOOLEAN
    /\ f_pc = "call"
    /\ possibles = <<>>
    /\ result = NoneDict
    /\ ObjectsIdle

\* The readings of the week the feast dates lie in.
FeastReadings ==
    /\ sunday_readings = SundayTable({"Advent 3"}, {"Advent 3"})
    /\ weekday_readings = WeekdayTable({"Advent 2", "Advent 3"}, {"Advent 2", "Advent 3"})
    /\ fixed_weekday_readings = FixedTable({"12-17"}, {"12-17"})
    /\ r_date = MkDate(FirstYear, 1, 1)
    /\ liturgical_info = [week |-> None, weekday_reading |-> None]
    /\ r_pc = "idle"
    /\ readings = <<>>
    /\ consulted = {}

\* The FeastService not in use.
FeastIdle ==
    /\ christmas_feasts = <<>>
    /\ easter_feasts = <<>>
    /\ q_date = MkDate(FirstYear, 1, 1)
    /\ transferred = FALSE
    /\ f_pc = "idle"
    /\ possibles = <<>>
    /\ result = NoneDict
    /\ ObjectsIdle

\* One query of the entry point; possibles keeps the candidates it collected.
GetCompleteFeastInfo ==
    /\ f_pc = "call"
    /\ possibles' = collect_possible_feasts(q_date, transferred)
    /\ result' = get_complete_feast_info(q_date, transferred)
    /\ f_pc' = "return"
    /\ UNCHANGED <<christmas_feasts, easter_feasts, q_date, transferred,
                   objectVars, seasonVars, readingsVars, colourVars, inputVars, yearVars>>

\* The caller asks again, on the same tables.
NextFeastQuery ==
    /\ f_pc = "return"
    /\ q_date' \in FeastDates
    /\ transferred' \in BOOLEAN
    /\ <<q_date', transferred'>> # <<q_date, transferred>>
    /\ f_pc' = "call"
    /\ possibles' = <<>>
    /\ result' = NoneDict
    /\ UNCHANGED <<christmas_feasts, easter_feasts, objectVars, seasonVars,
                   readingsVars, colourVars, inputVars, yearVars>>

FeastNext == GetCompleteFeastInfo \/ NextFeastQuery

\* The FeastService on tables followed as objects, through a sequence of up
\* to MaxQueries queries.
MaxQueries == 3

InPlaceDates == {MkDate(2024, 12, 14), MkDate(2024, 12, 15), MkDate(2024, 12, 16)}

\* What the tables may hold for a key: nothing, a feast, or a feast that
\* carries its own readings.
WithReadings(f) == [readings |-> <<"Reading of " \o f.name>>] @@ f

Tables ==
    [easter |-> easter_feasts, christmas |-> christmas_feasts]

InPlaceInit ==
    /\ \E sat \in {<<>>, "12-14" :> FixedFeast("12-14", 7),
                   "12-14" :> WithReadings(FixedFeast("12-14", 7))},
          sun \in {<<>>, "12-15" :> FixedFeast("12-15", 7),
                   "12-15" :> WithReadings(FixedFeast("12-15", 7))},
          mon \in {<<>>, "12-16" :> WithReadings(FixedFeast("12-16", 3))} :
           christmas_feasts = sat @@ sun @@ mon
    /\ \E sat \in {<<>>, EasterPoint(MkDate(2024, 12, 14))
                         :> MovableFeast(EasterPoint(MkDate(2024, 12, 14)), 9)},
          sun \in {<<>>, EasterPoint(MkDate(2024, 12, 15))
                         :> MovableFeast(EasterPoint(MkDate(2024, 12, 15)), 7)} :
           easter_feasts = sat @@ sun
    /\ feasts_at_start = Tables
    /\ lookup_copies \in BOOLEAN
    /\ q_date \in InPlaceDates
    /\ transferred \in BOOLEAN
    /\ f_pc = "call"
    /\ possibles = <<>>
    /\ result = NoneDict
    /\ calls = <<>>
    /\ n_queries = 1

\* One query of the entry point, with what it does to the tables.
GetCompleteFeastInfoInPlace ==
    /\ f_pc = "call"
    /\ \E q \in {get_complete_feast_info_in_place(Tables, q_date, transferred,
                                                  lookup_copies)} :
           /\ easter_feasts' = q.heap.easter
           /\ christmas_feasts' = q.heap.christmas
           /\ result' = Untag(q.result)
           /\ possibles' = [i \in 1..Len(q.possibles) |-> Untag(q.possibles[i])]
           /\ calls' = q.calls
    /\ f_pc' = "return"
    /\ UNCHANGED <<q_date, transferred, lookup_copies, feasts_at_start, n_queries,
                   seasonVars, readingsVars, colourVars, inputVars, yearVars>>

\* The caller asks again, for the same or another date.
NextQueryInPlace ==
    /\ f_pc = "return"
    /\ n_queries < MaxQueries
    /\ q_date' \in InPlaceDates
    /\ transferred' \in BOOLEAN
    /\ n_queries' = n_queries + 1
    /\ f_pc' = "call"
    /\ possibles' = <<>>
    /\ result' = NoneDict
    /\ calls' = <<>>
    /\ UNCHANGED <<christmas_feasts, easter_feasts, lookup_copies, feasts_at_start,
                   seasonVars, readingsVars, colourVars, inputVars, yearVars>>

InPlaceNext == GetCompleteFeastInfoInPlace \/ NextQueryInPlace

\* The entry point on the days around the weeks before Lent and before
\* Advent of 2025, with or without a feast on one of them.
PresentedDates ==
    {add_delta_days(d) :
        d \in (date_to_days(2025, 2, 10) .. date_to_days(2025, 3, 9))
              \cup (date_to_days(2025, 10, 26) .. date_to_days(2025, 12, 1))}

PresentedInit ==
    /\ christmas_feasts \in {<<>>, "02-24" :> FixedFeast("02-24", 7),
                             "11-09" :> FixedFeast("11-09", 3)}
    /\ easter_feasts = <<>>
    /\ q_date \in PresentedDates
    /\ transferred \in BOOLEAN
    /\ f_pc = "call"
    /\ possibles = <<>>
    /\ result = NoneDict
    /\ ObjectsIdle

\* _determine_colour on winning candidates of every shape: with or without a
\* name of a rose Sunday, an explicit colour (or the key holding None), a
\* precedence and a martyr flag, in every season and in one the table of
\* colours does not know.
ColourNames == {"", "Advent 3", "Lent 4", "Stephen"}
ColourFields ==
    {<<>>, [colour |-> None], [colour |-> "red"], [colour |-> "gold"]}
PrecFields == {<<>>} \cup {[prec |-> p] : p \in {1, 4, 5, 7, 9}}
MartyrFields == {<<>>, [martyr |-> TRUE], [martyr |-> FALSE]}

ColourInit ==
    /\ \E n \in ColourNames, c \in ColourFields, p \in PrecFields, m \in MartyrFields :
           c_result = [name |-> n] @@ c @@ p @@ m
    /\ c_season \in Seasons \cup {"Kingdom"}
    /\ c_colour = None
    /\ c_pc = "call"

\* _determine_colour not called on its own.
ColourIdle ==
    /\ c_result = NoneDict
    /\ c_season = None
    /\ c_colour = None
    /\ c_pc = "idle"

DetermineColour ==
    /\ c_pc = "call"
    /\ c_colour' = determine_colour(c_result, c_season)
    /\ c_pc' = "return"
    /\ UNCHANGED <<c_result, c_season, seasonVars, readingsVars, feastVars, inputVars,
                   yearVars>>

-----------------------------------------------------------------------------
(* The entry points on any value passed for the date.                      *)

\* A string is the sequence of its characters.
Digit == {"0", "1", "2", "3", "4", "5", "6", "7", "8", "9"}
DigitValue(c) == CHOOSE n \in 0..9 : ToString(n) = c

RECURSIVE Number(_)
Number(cs) ==
    IF cs = <<>> THEN 0
    ELSE 10 * Number(SubSeq(cs, 1, Len(cs) - 1)) + DigitValue(cs[Len(cs)])

\* datetime.strptime(s, "%Y-%m-%d").date(): four digits, one or two digits
\* of a month, one or two digits of a day of that month, or ValueError.
strptime(cs) ==
    LET dashes == {i \in 1..Len(cs) : cs[i] = "-"}
    IN  IF Cardinality(dashes) # 2 THEN [error |-> "ValueError"]
        ELSE LET d1 == CHOOSE i \in dashes : \A j \in dashes : i <= j
                 d2 == CHOOSE i \in dashes : \A j \in dashes : j <= i
                 y  == SubSeq(cs, 1, d1 - 1)
                 m  == SubSeq(cs, d1 + 1, d2 - 1)
                 d  == SubSeq(cs, d2 + 1, Len(cs))
                 Digits(f) == \A i \in 1..Len(f) : f[i] \in Digit
             IN  IF /\ Digits(y) /\ Len(y) = 4 /\ Number(y) >= 1
                    /\ Digits(m) /\ Len(m) \in 1..2 /\ Number(m) \in 1..12
                    /\ Digits(d) /\ Len(d) \in 1..2 /\ Number(d) >= 1
                    /\ Number(d) <= DaysInMonth(Number(y), Number(m))
                 THEN [date |-> MkDate(Number(y), Number(m), Number(d))]
                 ELSE [error |-> "ValueError"]

\* The strings passed: dates, and strings that are no date.
DateTexts ==
    {<<"2", "0", "2", "4", "-", "1", "2", "-", "1", "5">>,
     <<"2", "0", "2", "5", "-", "0", "2", "-", "1", "7">>,
     <<"2", "0", "2", "4", "-", "0", "2", "-", "2", "9">>}
OtherTexts ==
    {<<"i", "n", "v", "a", "l", "i", "d", "-", "d", "a", "t", "e">>,
     <<"2", "0", "2", "5", "-", "0", "2", "-", "2", "9">>,
     <<"2", "0", "2", "4", "-", "1", "3", "-", "0", "1">>,
     <<"2", "0", "2", "4", "-", "1", "2", "-", "3", "2">>,
     <<"2", "0", "2", "4", "1", "2", "1", "5">>,
     <<"1", "5", "-", "1", "2", "-", "2", "0", "2", "4">>,
     <<"2", "0", "2", "4", "-", "1", "2">>,
     <<>>}

\* The values passed for the date: a string, a date, a datetime, None, an
\* int.
InputValues ==
    {[type |-> "str", text |-> t] : t \in DateTexts \cup OtherTexts}
    \cup {[type |-> "date", date |-> MkDate(2024, 12, 15)],
          [type |-> "datetime", date |-> MkDate(2024, 12, 15)],
          [type |-> "NoneType"], [type |-> "int"]}

EntryPoints == {"liturgical_calendar", "get_complete_feast_info", "get_readings_for_date"}

InputInit ==
    /\ i_entry \in EntryPoints
    /\ i_input \in InputValues
    /\ i_today \in {MkDate(2024, 12, 15), MkDate(2025, 2, 17), MkDate(2026, 11, 4)}
    /\ i_pc = "call"
    /\ i_date = None
    /\ i_error = None

\* No entry point called on its own.
InputIdle ==
    /\ i_entry = None
    /\ i_input = [type |-> "NoneType"]
    /\ i_today = MkDate(FirstYear, 1, 1)
    /\ i_pc = "idle"
    /\ i_date = None
    /\ i_error = None

Returns(fd) == i_pc' = "return" /\ i_date' = fd /\ i_error' = None
Raises(err) == i_pc' = "raise" /\ i_date' = None /\ i_error' = err

\* liturgical_calendar(s_date): the date it goes on with.
LiturgicalCalendarInput ==
    /\ i_pc = "call"
    /\ i_entry = "liturgical_calendar"
    /\ CASE i_input.type \in {"datetime", "date"} -> Returns(i_input.date)
         [] i_input.type = "str" ->
                \E parsed \in {strptime(i_input.text)} :
                    IF "date" \in DOMAIN parsed THEN Returns(parsed.date)
                    ELSE Raises(parsed.error)
         [] OTHER -> Returns(i_today)
    /\ UNCHANGED <<i_entry, i_input, i_today, seasonVars, readingsVars, feastVars,
                   colourVars, yearVars>>

\* FeastService.get_complete_feast_info(date_str): strptime takes a str.
GetCompleteFeastInfoInput ==
    /\ i_pc = "call"
    /\ i_entry = "get_complete_feast_info"
    /\ IF i_input.type = "str"
       THEN \E parsed \in {strptime(i_input.text)} :
                IF "date" \in DOMAIN parsed THEN Returns(parsed.date)
                ELSE Raises(parsed.error)
       ELSE Raises("TypeError")
    /\ UNCHANGED <<i_entry, i_input, i_today, seasonVars, readingsVars, feastVars,
                   colourVars, yearVars>>

\* ReadingsManager.get_readings_for_date(date_str, liturgical_info): the
\* ValueError or TypeError of strptime becomes a ReadingsNotFoundError.
GetReadingsForDateInput ==
    /\ i_pc = "call"
    /\ i_entry = "get_readings_for_date"
    /\ IF i_input.type = "str" /\ "date" \in DOMAIN strptime(i_input.text)
       THEN Returns(strptime(i_input.text).date)
       ELSE Raises("ReadingsNotFoundError")
    /\ UNCHANGED <<i_entry, i_input, i_today, seasonVars, readingsVars, feastVars,
                   colourVars, yearVars>>

InputNext ==
    LiturgicalCalendarInput \/ GetCompleteFeastInfoInput \/ GetReadingsForDateInput

-----------------------------------------------------------------------------
(* get_easter and get_advent_sunday on every year of the Gregorian calendar *)
(* dateutil computes Easter for.                                           *)

FirstEasterYear == 1583
LastEasterYear == 4099

YearInit ==
    /\ y_year \in FirstEasterYear..LastEasterYear
    /\ y_pc = "call"
    /\ y_easter = <<>>
    /\ y_advent = 0
    /\ y_cycle = <<>>

\* Neither function called on its own.
YearIdle ==
    /\ y_year = FirstEasterYear
    /\ y_pc = "idle"
    /\ y_easter = <<>>
    /\ y_advent = 0
    /\ y_cycle = <<>>

GetEaster ==
    /\ y_pc = "call"
    /\ y_easter' = get_easter(y_year)
    /\ y_pc' = "easter"
    /\ UNCHANGED <<y_year, y_advent, y_cycle, seasonVars, readingsVars, feastVars, colourVars,
                   inputVars>>

GetAdventSunday ==
    /\ y_pc = "easter"
    /\ y_advent' = get_advent_sunday(y_year)
    /\ y_pc' = "done"
    /\ UNCHANGED <<y_year, y_easter, y_cycle, seasonVars, readingsVars, feastVars, colourVars,
                   inputVars>>

YearNext == GetEaster \/ GetAdventSunday

\* get_yearly_cycle on any int: the years up to CycleSpan on either side of
\* 0, and some of the present.
CycleSpan == 100

CycleYears == ((0 - CycleSpan)..CycleSpan) \cup {2023, 2024, 2025, 2026, 9999}

CycleInit ==
    /\ y_year \in CycleYears
    /\ y_pc = "call"
    /\ y_easter = <<>>
    /\ y_advent = 0
    /\ y_cycle = <<>>

GetYearlyCycle ==
    /\ y_pc = "call"
    /\ y_cycle' = get_yearly_cycle(y_year)
    /\ y_pc' = "cycle"
    /\ UNCHANGED <<y_year, y_easter, y_advent, seasonVars, readingsVars, feastVars,
                   colourVars, inputVars>>

-----------------------------------------------------------------------------
\* _apply_precedence_rules on candidate lists of every shape: up to
\* MaxPossibles candidates, with or without a precedence.
MaxPossibles == 4

CandidateKinds ==
    {[type |-> "Feast"]} \cup {[type |-> "Feast", prec |-> p] : p \in {1, 5, 7, 9}}

PrecedenceInit ==
    /\ \E n \in 0..MaxPossibles : \E k \in [1..n -> CandidateKinds] :
           possibles = [i \in 1..n |-> [name |-> "candidate " \o ToString(i)] @@ k[i]]
    /\ transferred \in BOOLEAN
    /\ f_pc = "call"
    /\ result = NoneDict
    /\ christmas_feasts = <<>>
    /\ easter_feasts = <<>>
    /\ q_date = MkDate(FirstYear, 1, 1)
    /\ ObjectsIdle

ApplyPrecedenceRules ==
    /\ f_pc = "call"
    /\ result' = apply_precedence_rules(possibles, transferred)
    /\ f_pc' = "return"
    /\ UNCHANGED <<possibles, transferred, christmas_feasts, easter_feasts, q_date,
                   objectVars, seasonVars, readingsVars, colourVars, inputVars, yearVars>>

-----------------------------------------------------------------------------
(* The specifications: one component at work, the others idle.             *)

Init ==
    SeasonInit /\ ReadingsIdle /\ FeastIdle /\ ColourIdle /\ InputIdle /\ YearIdle

Spec == Init /\ [][Next]_vars

InitReadings ==
    SeasonIdle /\ ReadingsInit /\ FeastIdle /\ ColourIdle /\ InputIdle /\ YearIdle

SpecReadings == InitReadings /\ [][ReadingsNext]_vars

InitFeast ==
    SeasonIdle /\ FeastReadings /\ FeastInit /\ ColourIdle /\ InputIdle /\ YearIdle

SpecFeast == InitFeast /\ [][FeastNext]_vars

InitPrecedence ==
    SeasonIdle /\ ReadingsIdle /\ PrecedenceInit /\ ColourIdle /\ InputIdle /\ YearIdle

SpecPrecedence == InitPrecedence /\ [][ApplyPrecedenceRules]_vars

InitColour ==
    SeasonIdle /\ ReadingsIdle /\ FeastIdle /\ ColourInit /\ InputIdle /\ YearIdle

SpecColour == InitColour /\ [][DetermineColour]_vars

InitInPlace ==
    SeasonIdle /\ FeastReadings /\ InPlaceInit /\ ColourIdle /\ InputIdle /\ YearIdle

SpecInPlace == InitInPlace /\ [][InPlaceNext]_vars

InitPresented ==
    SeasonIdle /\ ReadingsIdle /\ PresentedInit /\ ColourIdle /\ InputIdle /\ YearIdle

SpecPresented == InitPresented /\ [][GetCompleteFeastInfo]_vars

InitInput ==
    SeasonIdle /\ ReadingsIdle /\ FeastIdle /\ ColourIdle /\ InputInit /\ YearIdle

SpecInput == InitInput /\ [][InputNext]_vars

InitYear ==
    SeasonIdle /\ ReadingsIdle /\ FeastIdle /\ ColourIdle /\ InputIdle /\ YearInit

SpecYear == InitYear /\ [][YearNext]_vars

InitCycle ==
    SeasonIdle /\ ReadingsIdle /\ FeastIdle /\ ColourIdle /\ InputIdle /\ CycleInit

SpecCycle == InitCycle /\ [][GetYearlyCycle]_vars

-----------------------------------------------------------------------------
(* Claims about the Season Calculator, checked under Spec.                 *)

Days(fd) == date_to_days(fd.year, fd.month, fd.day)

\* The linear index of the Sunday on or before fd, and that Sunday.
SundayDays(fd) == Days(fd) - day_of_week(fd.year, fd.month, fd.day)
SundayOf(fd) == add_delta_days(SundayDays(fd))

\* Ash Wednesday of a year: Easter - 46 days.
AshWednesday(year) ==
    LET e == get_easter(year) IN date_to_days(year, e[1], e[2]) - 46

IsFixedWeekdayDate(fd) == MonthDay(fd.month, fd.day) \in fixed_weekday_dates

\* The priority table of the season boundaries, one row per season.
SeasonRows(fd) ==
    LET ep  == EasterPoint(fd)
        cp  == ChristmasPoint(fd)
        adv == get_advent_sunday(fd.year)
        dow == day_of_week(fd.year, fd.month, fd.day)
        wua == WeeksUntilAdvent(fd)
    IN  << <<-62 <= ep /\ ep <= -47, "Pre-Lent">>,
           <<adv <= cp /\ cp <= -1, "Advent">>,
           <<0 <= cp /\ cp <= 11, "Christmas">>,
           <<12 <= cp /\ cp < 40, "Epiphany">>,
           <<ep <= -62, "Ordinary Time">>,
           <<-47 < ep /\ ep < -7, "Lent">>,
           <<-7 <= ep /\ ep < 0, "Holy Week">>,
           <<0 <= ep /\ ep < 49, "Easter">>,
           <<49 <= ep /\ ep < 56, "Pentecost">>,
           <<dow = 0 /\ 0 < wua /\ wua <= 4, "Pre-Advent">>,
           <<TRUE, "Trinity">> >>

FirstMatch(rows) ==
    rows[CHOOSE i \in 1..Len(rows) :
            rows[i][1] /\ \A j \in 1..(i - 1) : ~rows[j][1]][2]

\* C1: for every date, determine_season returns one of the eleven seasons, and
\* it is the season of the first row of the priority table that the date matches.
C1_SeasonIsFirstMatchingRow ==
    pc # "date" =>
        /\ season \in Seasons
        /\ season = FirstMatch(SeasonRows(f_date))

\* C1 witness: a date that matches both the Pre-Lent row and the Epiphany row
\* (an early Easter), classified Pre-Lent.
C1_Witness ==
    /\ pc = "season"
    /\ season = "Pre-Lent"
    /\ ChristmasPoint(f_date) >= 12 /\ ChristmasPoint(f_date) < 40

\* C2: every date of a week has the week name of the Sunday that opens the week,
\* and week_start_sunday is that Sunday, whatever the season of the date.
C2_WeekNameOfSunday ==
    pc = "week" =>
        /\ info.week_start_sunday = SundayOf(f_date)
        /\ info.week_name = week_info(SundayOf(f_date)).week_name

C8_KeySameWithinWeek ==
    pc = "week" =>
        /\ IsFixedWeekdayDate(f_date) => info.weekday_reading_key = None
        /\ ~IsFixedWeekdayDate(f_date) =>
              \A k \in 0..6 :
                  LET other == add_delta_days(SundayDays(f_date) + k)
                  IN  ~IsFixedWeekdayDate(other) =>
                          week_info(other).weekday_reading_key = info.weekday_reading_key

-----------------------------------------------------------------------------
(* Claims about the Readings Selector, checked under SpecReadings.         *)

RIsSunday == isoweekday(r_date.year, r_date.month, r_date.day) = 7

\* The week-based key of the query: weekday_reading, or week when absent.
RKey ==
    IF liturgical_info.weekday_reading = None THEN liturgical_info.week
    ELSE liturgical_info.weekday_reading

\* The entries of the three tables the query is about; the empty list when
\* the table has none.
SundayEntry ==
    LET c == get_yearly_cycle(r_date.year)[1]
        w == liturgical_info.week
    IN  IF w \in DOMAIN sunday_readings /\ c \in DOMAIN sunday_readings[w]
        THEN sunday_readings[w][c] ELSE <<>>

WeekBasedEntry ==
    LET c  == ToString(get_yearly_cycle(r_date.year)[2])
        dn == DayName(weekday(r_date.year, r_date.month, r_date.day))
    IN  IF /\ RKey \in DOMAIN weekday_readings
           /\ dn \in DOMAIN weekday_readings[RKey]
           /\ c \in DOMAIN weekday_readings[RKey][dn]
        THEN weekday_readings[RKey][dn][c] ELSE <<>>

FixedEntry ==
    LET c  == ToString(get_yearly_cycle(r_date.year)[2])
        md == MonthDay(r_date.month, r_date.day)
    IN  IF /\ md \in DOMAIN fixed_weekday_readings
           /\ c \in DOMAIN fixed_weekday_readings[md]
        THEN fixed_weekday_readings[md][c] ELSE <<>>

-----------------------------------------------------------------------------
(* Claims about the Feast Resolver, checked under SpecPrecedence and       *)
(* SpecFeast.                                                              *)

\* The place in possibles of the highest candidate, the earliest-collected
\* among equals, and of the highest of the others.
TopIndex ==
    CHOOSE i \in 1..Len(possibles) : \A j \in 1..Len(possibles) :
        \/ PrecKey(possibles[j]) < PrecKey(possibles[i])
        \/ PrecKey(possibles[j]) = PrecKey(possibles[i]) /\ i <= j

SecondIndex ==
    CHOOSE i \in (1..Len(possibles)) \ {TopIndex} :
        \A j \in (1..Len(possibles)) \ {TopIndex} :
            \/ PrecKey(possibles[j]) < PrecKey(possibles[i])
            \/ PrecKey(possibles[j]) = PrecKey(possibles[i]) /\ i <= j

\* C9: _apply_precedence_rules on any candidate list.  Without transferred it
\* returns a candidate of maximal precedence, the earliest-collected among
\* equal ones, or the default {name: '', prec: 1} for the empty list.  With
\* transferred it returns nothing when the highest candidate has precedence 5
\* or when there are fewer than two candidates, and the second-highest
\* candidate otherwise.
C9_PrecedenceSelection ==
    f_pc = "return" =>
        IF ~transferred
        THEN IF Len(possibles) = 0 THEN result = [name |-> "", prec |-> 1]
             ELSE result = possibles[TopIndex]
        ELSE IF Len(possibles) < 2 THEN result = NoneDict
             ELSE IF PrecKey(possibles[TopIndex]) = 5 THEN result = NoneDict
             ELSE result = possibles[SecondIndex]

\* A lookahead over three or more candidates whose two highest are equal and
\* were not collected first: the later of the two is returned.
C9_Witness ==
    /\ f_pc = "return"
    /\ transferred
    /\ Len(possibles) >= 3
    /\ TopIndex > 1
    /\ PrecKey(possibles[SecondIndex]) = PrecKey(possibles[TopIndex])
    /\ result = possibles[SecondIndex]

QIsSunday == day_of_week(q_date.year, q_date.month, q_date.day) = 0

\* C10: the implicit Sunday candidate, of precedence 5 and named by the week
\* name of the date, is among the candidates collected for a date if and only
\* if the date is a Sunday and no candidate collected for it has precedence 9.
C10_ImplicitSundayCandidate ==
    f_pc = "return" =>
        ((\E i \in 1..Len(possibles) :
              /\ Get(possibles[i], "type", None) = "Sunday"
              /\ PrecKey(possibles[i]) = 5
              /\ possibles[i].name = week_info(q_date).week_name)
         <=> (QIsSunday /\ \A i \in 1..Len(possibles) : PrecKey(possibles[i]) # 9))

FixedKey(fd) == MonthDay(fd.month, fd.day)

\* A fixed feast above the precedence of a Sunday falls on the Sunday fd.
HighFixedOnSunday(fd) ==
    /\ day_of_week(fd.year, fd.month, fd.day) = 0
    /\ FixedKey(fd) \in DOMAIN christmas_feasts
    /\ christmas_feasts[FixedKey(fd)].prec > 5

HasOwnFeast(fd) ==
    \/ FixedKey(fd) \in DOMAIN christmas_feasts
    \/ EasterPoint(fd) \in DOMAIN easter_feasts

\* fd is the first day after the Sunday s that is no Sunday and has no feast
\* of its own.
NextOpenDay(s, fd) ==
    /\ Days(fd) > Days(s)
    /\ day_of_week(fd.year, fd.month, fd.day) # 0
    /\ ~HasOwnFeast(fd)
    /\ \A e \in FeastDates : (Days(s) < Days(e) /\ Days(e) < Days(fd)) => HasOwnFeast(e)

\* C3: when a high-precedence fixed feast falls on a Sunday, the result for
\* the Sunday carries the Sunday's own name, and the result for the next
\* non-Sunday day without a feast of its own carries the feast's name followed
\* by " (transferred)".
C3_TransferredFromSunday ==
    (f_pc = "return" /\ ~transferred) =>
        /\ HighFixedOnSunday(q_date) =>
               result.name \in {week_info(q_date).week_name, determine_season(q_date)}
        /\ \A s \in FeastDates :
               (HighFixedOnSunday(s) /\ NextOpenDay(s, q_date)) =>
                   result.name = christmas_feasts[FixedKey(s)].name \o " (transferred)"

-----------------------------------------------------------------------------
(* Claims about the colour, checked under SpecColour and SpecFeast.        *)

\* The colour of a season.
SeasonColour(s) ==
    CASE s = "Advent"    -> "purple"
      [] s = "Christmas" -> "white"
      [] s = "Epiphany"  -> "white"
      [] s = "Lent"      -> "purple"
      [] s = "Holy Week" -> "red"
      [] s = "Easter"    -> "white"
      [] OTHER           -> "green"

CHas(k) == k \in DOMAIN c_result

\* C11: _determine_colour takes its rules in order, for every winning
\* candidate and season: (1) the name 'Advent 3' or 'Lent 4' gives rose, even
\* with an explicit colour; (2) otherwise an explicit colour is returned
\* unchanged; (3) otherwise a precedence above 4 and other than 5 gives red
\* for a martyr, else white; (4) otherwise the season decides, green for every
\* season that is not Advent, Christmas, Epiphany, Lent, Holy Week or Easter.
C11_ColourRules ==
    c_pc = "return" =>
        LET rose     == c_result.name \in {"Advent 3", "Lent 4"}
            explicit == CHas("colour") /\ c_result.colour # None
            feast    == CHas("prec") /\ c_result.prec > 4 /\ c_result.prec # 5
            martyr   == CHas("martyr") /\ c_result.martyr
        IN  /\ rose => c_colour = "rose"
            /\ (~rose /\ explicit) => c_colour = c_result.colour
            /\ (~rose /\ ~explicit /\ feast) =>
                   c_colour = IF martyr THEN "red" ELSE "white"
            /\ (~rose /\ ~explicit /\ ~feast) => c_colour = SeasonColour(c_season)

\* A rose Sunday whose candidate carries an explicit colour.
C11_Witness ==
    /\ c_pc = "return"
    /\ c_result.name = "Advent 3"
    /\ CHas("colour") /\ c_result.colour = "red"
    /\ c_colour = "rose"

\* C12: every date whose week name in the result is "Advent 3" or "Lent 4"
\* has the colour rose in the result.
C12_RoseWeeks ==
    (f_pc = "return" /\ result.week \in {"Advent 3", "Lent 4"}) =>
        result.colour = "rose"

-----------------------------------------------------------------------------
(* Claims about the feast tables as objects, checked under SpecInPlace.    *)

\* What the query just answered returns on the tables as initialised.
FreshResult ==
    Untag(get_complete_feast_info_in_place(feasts_at_start, q_date, transferred,
                                           lookup_copies).result)

Yesterday(fd) == add_delta_days(Days(fd) - 1)

Winner == apply_precedence_rules(possibles, transferred)

-----------------------------------------------------------------------------
(* Claims about the record the entry point returns, checked under          *)
(* SpecPresented.                                                          *)

\* C16: the season of the record returned is never 'Pre-Lent' or
\* 'Pre-Advent': a date of those seasons is presented as 'Ordinary Time'.
C16_SeasonPresented ==
    f_pc = "return" =>
        /\ result.season \notin {"Pre-Lent", "Pre-Advent"}
        /\ determine_season(q_date) \in {"Pre-Lent", "Pre-Advent"}
               => result.season = "Ordinary Time"

\* The keys every record of the entry point has.
RecordKeys ==
    {"season", "week", "name", "colour", "colourcode", "readings", "date",
     "weekday_reading"}

-----------------------------------------------------------------------------
(* Claims about the input of the entry points, checked under SpecInput.    *)

\* A value that is no date: not a date or datetime, and not a string that
\* writes a date as YYYY-MM-DD.
Malformed(v) ==
    /\ v.type \notin {"date", "datetime"}
    /\ v.type = "str" => v.text \in OtherTexts

\* C18: a malformed date (a string that is no YYYY-MM-DD date, or a value
\* that is no date at all) makes the entry point raise an error; it never
\* goes on with today's date or any other date in its place.
C18_MalformedRaises ==
    (i_pc \in {"return", "raise"} /\ Malformed(i_input)) => i_pc = "raise"

-----------------------------------------------------------------------------
(* Claims about Easter and Advent Sunday, checked under SpecYear.          *)

\* The computus of the Gregorian calendar (the anonymous algorithm of
\* Meeus, Jones and Butcher), as (month, day).
Computus(year) ==
    LET a == year % 19
        b == year \div 100
        c == year % 100
        d == b \div 4
        e == b % 4
        f == (b + 8) \div 25
        g == (b - f + 1) \div 3
        h == (19 * a + b - d - g + 15) % 30
        i == c \div 4
        k == c % 4
        l == (32 + 2 * e + 2 * i - h - k) % 7
        m == (a + 11 * h + 22 * l) \div 451
        n == h + l - 7 * m + 114
    IN  <<n \div 31, (n % 31) + 1>>

\* C19: for every year get_easter returns the month and day of Easter Sunday
\* of the computus (2024: March 31, 2025: April 20, 2026: April 5); the day
\* is a Sunday from March 22 to April 25, and of the days of the year it is
\* the one whose easter_point is 0.
C19_EasterIsComputus ==
    y_pc \in {"easter", "done"} =>
        /\ y_easter = Computus(y_year)
        /\ y_year = 2024 => y_easter = <<3, 31>>
        /\ y_year = 2025 => y_easter = <<4, 20>>
        /\ y_year = 2026 => y_easter = <<4, 5>>
        /\ weekday(y_year, y_easter[1], y_easter[2]) = 6
        /\ \/ y_easter[1] = 3 /\ y_easter[2] \in 22..31
           \/ y_easter[1] = 4 /\ y_easter[2] \in 1..25
        /\ \A d \in date_to_days(y_year, 1, 1)..date_to_days(y_year, 12, 31) :
               EasterPoint(add_delta_days(d)) = 0
                   <=> add_delta_days(d) = MkDate(y_year, y_easter[1], y_easter[2])

\* The latest Easter there is: April 25, in 2038.
C19_Witness ==
    /\ y_pc = "easter"
    /\ y_year = 2038
    /\ y_easter = <<4, 25>>

\* The linear index of the day get_advent_sunday designates.
AdventSundayDays(year) == date_to_days(year, 12, 25) + get_advent_sunday(year)

\* The Sundays from the day get_advent_sunday designates up to 24 December.
SundaysOfAdvent(year) ==
    {d \in AdventSundayDays(year)..(date_to_days(year, 12, 25) - 1) :
        LET fd == add_delta_days(d) IN day_of_week(fd.year, fd.month, fd.day) = 0}

\* C20: for every year get_advent_sunday is a negative offset from 25
\* December, the day it designates is a Sunday, and exactly four Sundays lie
\* from that day up to 24 December, named Advent 1 to Advent 4.
C20_FourSundaysOfAdvent ==
    y_pc = "done" =>
        /\ y_advent < 0
        /\ LET fd == add_delta_days(date_to_days(y_year, 12, 25) + y_advent)
           IN  day_of_week(fd.year, fd.month, fd.day) = 0
        /\ Cardinality(SundaysOfAdvent(y_year)) = 4
        /\ {week_info(add_delta_days(d)).week_name : d \in SundaysOfAdvent(y_year)}
               = {"Advent 1", "Advent 2", "Advent 3", "Advent 4"}

-----------------------------------------------------------------------------
(* Claims about the date arithmetic.                                       *)

\* The days of a year, as the calendar has them.
DatesOfYear(y) ==
    {fd \in {MkDate(y, m, d) : m \in 1..12, d \in 1..31} :
        fd.day <= CASE fd.month \in {4, 6, 9, 11} -> 30
                    [] fd.month = 2 ->
                         IF y % 4 = 0 /\ (y % 100 # 0 \/ y % 400 = 0) THEN 29 ELSE 28
                    [] OTHER -> 31}

\* Beside the year at hand, a year counted from year 1.
EarlyYear == y_year - FirstEasterYear + 1

RoundTrip(y) ==
    /\ \A fd \in DatesOfYear(y) :
           /\ add_delta_days(date_to_days(fd.year, fd.month, fd.day)) = fd
           /\ date_to_days(NextDate(fd).year, NextDate(fd).month, NextDate(fd).day)
                  = date_to_days(fd.year, fd.month, fd.day) + 1
    /\ date_to_days(y, 1, 1) >= 0

\* C21: add_delta_days(date_to_days(d)) is d for every date from 0001-01-01
\* on; date_to_days is 0 on 0001-01-01 and the day after a date has the next
\* integer.
C21_LinearRoundTrip ==
    y_pc = "done" =>
        /\ date_to_days(1, 1, 1) = 0
        /\ RoundTrip(y_year)
        /\ RoundTrip(EarlyYear)

\* A leap year that a century rule decides: 2000, whose 29 February is day 59
\* of the year, where 1900 has 1 March.
C21_Witness ==
    /\ y_pc = "done"
    /\ y_year = 2000
    /\ add_delta_days(date_to_days(2000, 1, 1) + 59) = MkDate(2000, 2, 29)
    /\ add_delta_days(date_to_days(1900, 1, 1) + 59) = MkDate(1900, 3, 1)

\* The day of the week by Zeller's congruence, 0 for Sunday.
Zeller(fd) ==
    LET m == IF fd.month < 3 THEN fd.month + 12 ELSE fd.month
        y == IF fd.month < 3 THEN fd.year - 1 ELSE fd.year
        k == y % 100
        j == y \div 100
        h == (fd.day + ((13 * (m + 1)) \div 5) + k + (k \div 4) + (j \div 4) + 5 * j) % 7
    IN  (h + 6) % 7

\* C22: day_of_week is in 0..6 with 0 for Sunday, the next day has
\* (day_of_week + 1) mod 7, and date_to_days(d) - day_of_week(d) is the index
\* of the Sunday on or before d.
C22_DayOfWeek ==
    LET dow == day_of_week(f_date.year, f_date.month, f_date.day)
        nd  == NextDate(f_date)
        sun == add_delta_days(Days(f_date) - dow)
    IN  /\ dow \in 0..6
        /\ dow = Zeller(f_date)
        /\ day_of_week(nd.year, nd.month, nd.day) = (dow + 1) % 7
        /\ Zeller(sun) = 0
        /\ \A d \in (Days(f_date) - dow + 1)..Days(f_date) :
               Zeller(add_delta_days(d)) # 0

\* A Sunday, Christmas Day of 2022, and the season computed for it.
C22_Witness ==
    /\ f_date = MkDate(2022, 12, 25)
    /\ pc = "season"
    /\ day_of_week(2022, 12, 25) = 0
    /\ season = "Christmas"

-----------------------------------------------------------------------------
(* Claims about the lectionary cycles, checked under SpecCycle.            *)

\* The remainder r in 0..(n - 1) with x = n * q + r for an integer q.
FloorRemainder(x, n) ==
    CHOOSE r \in 0..(n - 1) : \E q \in (0 - 5000)..5000 : x = n * q + r

\* C23: for every integer year, 0 and the negative ones too, get_yearly_cycle
\* returns the Sunday cycle ['A','B','C'][(year - 1) mod 3] with the
\* remainder of floor division, and the weekday cycle 1 for an even year,
\* 2 for an odd one.
C23_YearlyCycle ==
    y_pc = "cycle" =>
        /\ y_cycle[1] = <<"A", "B", "C">>[FloorRemainder(y_year - 1, 3) + 1]
        /\ y_cycle[2] = IF FloorRemainder(y_year, 2) = 0 THEN 1 ELSE 2
        /\ y_year = 2023 => y_cycle = <<"A", 2>>
        /\ y_year = 2024 => y_cycle = <<"B", 1>>
        /\ y_year = 2025 => y_cycle = <<"C", 2>>
        /\ y_year = 0 => y_cycle = <<"C", 1>>
        /\ y_year = 0 - 1 => y_cycle = <<"B", 2>>

\* The year -1.
C23_Witness ==
    /\ y_pc = "cycle"
    /\ y_year = 0 - 1
    /\ y_cycle = <<"B", 2>>

-----------------------------------------------------------------------------
(* Claims about the week names of the seasons, checked under Spec.         *)

\* C24: when the week-opening Sunday is in the Christmas season, week_info
\* names the week "Christmas N", N being 1 when the Sunday's christmas_point
\* is 0 and 1 + christmas_point div 7 otherwise (1 or 2, never without a
\* number), with no weekday reading key; also on 1-6 January when the Sunday
\* lies in the year before.
C24_ChristmasWeeks ==
    (pc = "week" /\ determine_season(SundayOf(f_date)) = "Christmas") =>
        LET cp == ChristmasPoint(SundayOf(f_date))
            N  == IF cp = 0 THEN 1 ELSE 1 + (cp \div 7)
        IN  /\ N \in {1, 2}
            /\ info.week_name = "Christmas " \o ToString(N)
            /\ info.weekday_reading_key = None

\* The week name the claim gives a week whose opening Sunday S is in Advent,
\* Epiphany, Lent or Easter, from the offsets of S itself; None for the
\* other seasons.
NameFromSunday(S) ==
    LET cp == ChristmasPoint(S)
        ep == EasterPoint(S)
        ss == determine_season(S)
    IN  CASE ss = "Advent" ->
               "Advent " \o ToString(1 + ((cp - get_advent_sunday(S.year)) \div 7))
          [] ss = "Epiphany" ->
               "Epiphany " \o ToString(Max(1, 1 + ((cp - 12) \div 7)))
          [] ss = "Lent" ->
               "Lent " \o ToString(Max(1, ((ep + 42) \div 7) + 1))
          [] ss = "Easter" ->
               "Easter " \o ToString(1 + (ep \div 7))
          [] OTHER -> None

NumberedNames ==
    {"Advent " \o ToString(n) : n \in 1..4}
    \cup {"Epiphany " \o ToString(n) : n \in 1..4}
    \cup {"Lent " \o ToString(n) : n \in 1..5}
    \cup {"Easter " \o ToString(n) : n \in 1..7}

\* The week of S is one the Pre-Lent override reaches.
InPreLentWindow(S) ==
    /\ AshWednesday(S.year) - 35 <= Days(S)
    /\ Days(S) < AshWednesday(S.year)

SundaysUpTo(S) ==
    Cardinality({d \in date_to_days(S.year, 1, 1)..Days(S) :
                    Zeller(add_delta_days(d)) = 0})

\* The name the claim gives the week of a Sunday S of the Trinity season.
TrinityName(S) ==
    IF 56 <= EasterPoint(S) /\ EasterPoint(S) < 63 THEN "Trinity"
    ELSE "Proper " \o ToString(SundaysUpTo(S) - 18)

\* C26: a week whose opening Sunday S is in the Trinity season is named
\* "Trinity" when 56 <= easter_point(S) < 63 and otherwise "Proper N", N
\* being the Sunday-based week number of S in its year less 18, at least 1
\* and one more than for the Sunday before; the weekday reading key is
\* "Trinity M" with M = (easter_point(S) - 56) div 7 + 1 whatever the name.
C26_TrinityWeeks ==
    (pc = "week" /\ determine_season(SundayOf(f_date)) = "Trinity") =>
        LET S    == SundayOf(f_date)
            prev == add_delta_days(Days(S) - 7)
        IN  /\ info.week_name = TrinityName(S)
            /\ SundaysUpTo(S) - 18 >= 1
            /\ (determine_season(prev) = "Trinity" /\ EasterPoint(prev) >= 63)
                   => /\ week_info(prev).week_name
                             = "Proper " \o ToString(SundaysUpTo(S) - 19)
                      /\ info.week_name = "Proper " \o ToString(SundaysUpTo(S) - 18)
            /\ info.weekday_reading_key
                   = "Trinity " \o ToString(((EasterPoint(S) - 56) \div 7) + 1)
            /\ f_date = MkDate(2025, 6, 15)
                   => info.week_name = "Trinity" /\ info.weekday_reading_key = "Trinity 1"
            /\ f_date = MkDate(2025, 6, 22)
                   => info.week_name = "Proper 7" /\ info.weekday_reading_key = "Trinity 2"

\* A weekday of the week of 2025-06-22.
C26_Witness ==
    /\ pc = "week"
    /\ f_date = MkDate(2025, 6, 25)
    /\ info.week_name = "Proper 7"
    /\ info.weekday_reading_key = "Trinity 2"

-----------------------------------------------------------------------------
(* Claims about a transferred feast and about the Sundays of the           *)
(* FeastService, checked under SpecFeast.                                  *)

\* The fields get_complete_feast_info derives for the day of the query.
DerivedKeys ==
    {"season", "season_url", "week", "date", "weekday_reading", "colour",
     "colourcode", "readings"}

\* The winning candidate is the feast the lookahead brought from the day
\* before.
WinnerIsTransferred ==
    /\ f_pc = "return"
    /\ ~transferred
    /\ Winner # NoneDict
    /\ Winner = get_transferred_feast(q_date)

\* C27: when the winning candidate for D is a feast transferred from D-1,
\* the colour and the readings of the result are those the colour rule and
\* the selection of readings give for D, not those computed for D-1 in the
\* lookahead.
C27_TransferredDerivedForDay ==
    WinnerIsTransferred =>
        LET feast == [k \in DOMAIN Winner \ DerivedKeys |-> Winner[k]]
        IN  /\ result.colour = determine_colour(feast, determine_season(q_date))
            /\ result.readings =
                   get_readings_for_date(sunday_readings, weekday_readings,
                       fixed_weekday_readings, q_date,
                       [week |-> week_info(q_date).week_name,
                        weekday_reading |-> week_info(q_date).weekday_reading_key])[1]
            /\ result.date = q_date
            /\ result.week = week_info(q_date).week_name

-----------------------------------------------------------------------------
(* Claims about the order of the seasons along a year, checked under Spec. *)

\* The liturgical cycle as the claim lists it, Christmas closing it again.
LiturgicalCycle ==
    <<"Christmas", "Epiphany", "Ordinary Time", "Pre-Lent", "Lent", "Holy Week",
      "Easter", "Pentecost", "Trinity", "Pre-Advent", "Advent", "Christmas">>

\* The place of a day's season in the cycle of its calendar year: the
\* Christmas of December is the one that closes the cycle.
CyclePlace(s, fd) ==
    IF s = "Christmas" /\ fd.month = 12 THEN Len(LiturgicalCycle)
    ELSE CHOOSE i \in 1..(Len(LiturgicalCycle) - 1) : LiturgicalCycle[i] = s

\* The place with the Sundays before Advent counted among the days of Trinity
\* that surround them.
CyclePlaceOfWeek(s, fd) ==
    IF s = "Pre-Advent" THEN CyclePlace("Trinity", fd) ELSE CyclePlace(s, fd)

\* The season of the day after f_date.
SeasonTomorrow == determine_season(NextDate(f_date))

\* C28 as stated: advancing one day at a time through a year, the value of
\* determine_season moves only forward along the liturgical cycle, so each
\* season is one contiguous run of days and a season that was left does not
\* come back within the year.
C28_SeasonsOnlyForward ==
    (season # None /\ NextDate(f_date).year = f_date.year) =>
        CyclePlace(season, f_date) <= CyclePlace(SeasonTomorrow, NextDate(f_date))

\* C28 as the code has it: Pre-Advent is the value of the Sundays of the four
\* weeks before Advent only, and the weekdays after such a Sunday are Trinity
\* again; with those Sundays counted among the days of Trinity the season moves
\* only forward, and 1 January continues the Christmas of 31 December.
C28_ForwardButPreAdventSundays ==
    season # None =>
        /\ season = determine_season(f_date)
        /\ NextDate(f_date).year = f_date.year =>
               CyclePlaceOfWeek(season, f_date)
                   <= CyclePlaceOfWeek(SeasonTomorrow, NextDate(f_date))
        /\ NextDate(f_date).year # f_date.year =>
               season = "Christmas" /\ SeasonTomorrow = "Christmas"
        /\ season = "Pre-Advent" =>
               /\ day_of_week(f_date.year, f_date.month, f_date.day) = 0
               /\ SeasonTomorrow = "Trinity"

\* A Sunday before Advent has been classified and the Monday after it is a day
\* of Trinity.
C28_Witness ==
    /\ pc = "season"
    /\ season = "Pre-Advent"
    /\ SeasonTomorrow = "Trinity"
    /\ determine_season(add_delta_days(Days(f_date) - 1)) = "Trinity"

-----------------------------------------------------------------------------
(* Claims about Lent in every year of the Gregorian Easter table, checked  *)
(* under SpecYear.                                                         *)

\* The dates from Ash Wednesday to Holy Saturday of y_year, by the Easter
\* that get_easter returned: -46 <= easter_point <= -1.
LentenDates ==
    {add_delta_days(date_to_days(y_year, y_easter[1], y_easter[2]) + p) :
        p \in (0 - 46)..(0 - 1)}

\* C29 as stated: in every year every date from Ash Wednesday to Holy
\* Saturday is classified Lent or Holy Week, and none of them has a
\* christmas_point below 40.
C29_Original ==
    y_pc \in {"easter", "done"} =>
        \A fd \in LentenDates :
            /\ determine_season(fd) \in {"Lent", "Holy Week"}
            /\ ChristmasPoint(fd) >= 40

\* C29 as the code has it: every date from Ash Wednesday to Holy Saturday is
\* classified Lent (up to the Saturday before Palm Sunday) or Holy Week (from
\* Palm Sunday on); its christmas_point is 40 or more in January and February,
\* where it is counted from the Christmas before, and below advent_sunday from
\* March on, where it is counted from the Christmas to come, so the Advent,
\* Christmas and Epiphany rows never take a Lenten date.
C29_LentIsLentOrHolyWeek ==
    y_pc \in {"easter", "done"} =>
        \A fd \in LentenDates :
            /\ EasterPoint(fd) \in (0 - 46)..(0 - 1)
            /\ fd.month <= 2 => ChristmasPoint(fd) >= 40
            /\ fd.month > 2 => ChristmasPoint(fd) < get_advent_sunday(fd.year)
            /\ determine_season(fd)
                   = IF EasterPoint(fd) < 0 - 7 THEN "Lent" ELSE "Holy Week"

\* The earliest Easter, 22 March: Ash Wednesday is 4 February, with
\* christmas_point 41, and Holy Saturday is 21 March, counted from the
\* Christmas to come.
C29_Witness ==
    /\ y_pc = "easter"
    /\ y_easter = <<3, 22>>
    /\ MkDate(y_year, 2, 4) \in LentenDates
    /\ ChristmasPoint(MkDate(y_year, 2, 4)) = 41
    /\ determine_season(MkDate(y_year, 2, 4)) = "Lent"
    /\ ChristmasPoint(MkDate(y_year, 3, 21)) < 0
    /\ determine_season(MkDate(y_year, 3, 21)) = "Holy Week"

-----------------------------------------------------------------------------
(* Claims about the Sunday decisions of one query, checked under SpecFeast. *)

\* The candidates of the query hold the implicit Sunday candidate.
HasSundayCandidate ==
    \E i \in 1..Len(possibles) :
        "type" \in DOMAIN possibles[i] /\ possibles[i].type = "Sunday"

\* C30: within one query every decision whether the date is a Sunday agrees
\* with day_of_week(date) = 0: the Sunday branch of the week name and the
\* addition of the implicit Sunday candidate are taken on the Sundays and on
\* no other day.
C30_SundayDecisionsAgree ==
    f_pc = "return" =>
        LET sunday == day_of_week(q_date.year, q_date.month, q_date.day) = 0
        IN  /\ week_name_sunday_branch(q_date) <=> sunday
            /\ sunday_candidate_branch(q_date) <=> sunday
            /\ HasSundayCandidate => sunday

=============================================================================
